---- MODULE Spec2Model ----
(***************************************************************************)
(* A model of PDFToMarkdownConverter (src/pdf_to_markdown.py) and of the   *)
(* Gradio handler convert_pdf_with_ui (src/gradio_ui.py).                  *)
(*                                                                         *)
(* A Python str is a sequence of one-character strings.  A font size is an *)
(* integer number of tenths of a point, a page coordinate an integer       *)
(* number of hundredths of a point, a tolerance an integer number of       *)
(* tenths of a point.                                                      *)
(***************************************************************************)
EXTENDS Integers, Sequences, FiniteSets, TLC

VARIABLES
    doc,                  \* self.doc: the opened document, a sequence of pages
    font_size_tolerance,  \* self.font_size_tolerance
    headings,             \* self.headings
    font_sizes,           \* self.font_sizes
    normalized_font_map,  \* self.normalized_font_map
    size_to_heading,      \* self.size_to_heading
    images_dir,           \* self.images_dir is set
    out_file,             \* the markdown output file of save_markdown
    calls,                \* number of method calls made on the converter
    prev,                 \* the call before the last one
    last,                 \* the last call: its options and its outcome
    arg,                  \* argument of a directly called method
    ret                   \* what the directly called method returned

vars == <<doc, font_size_tolerance, headings, font_sizes, normalized_font_map,
          size_to_heading, images_dir, out_file, calls, prev, last, arg, ret>>

\* the fields of the converter
conv_vars == <<font_size_tolerance, headings, font_sizes, normalized_font_map,
               size_to_heading, images_dir>>

----------------------------------------------------------------------------
(* Python built-ins on str and list *)

Abs(a) == IF a >= 0 THEN a ELSE 0 - a

Whitespace == {" ", "\t", "\n", "\r"}

UpperCase == <<"A", "B", "C", "D", "E", "F", "G", "H", "I", "J", "K", "L", "M",
               "N", "O", "P", "Q", "R", "S", "T", "U", "V", "W", "X", "Y", "Z">>

LowerCase == <<"a", "b", "c", "d", "e", "f", "g", "h", "i", "j", "k", "l", "m",
               "n", "o", "p", "q", "r", "s", "t", "u", "v", "w", "x", "y", "z">>

Digits == <<"0", "1", "2", "3", "4", "5", "6", "7", "8", "9">>

Range(s) == {s[i] : i \in DOMAIN s}

\* str.lower() on one character
LowerChar(c) ==
    IF c \in Range(UpperCase)
    THEN LowerCase[CHOOSE i \in DOMAIN UpperCase : UpperCase[i] = c]
    ELSE c

\* str.lower()
Lower(s) == [i \in DOMAIN s |-> LowerChar(s[i])]

\* `sub in s` for two str
Contains(s, sub) ==
    \E i \in 1..(Len(s) - Len(sub) + 1) : SubSeq(s, i, i + Len(sub) - 1) = sub

\* s.startswith(p), from position i
StartsWithAt(s, i, p) ==
    /\ i + Len(p) - 1 <= Len(s)
    /\ SubSeq(s, i, i + Len(p) - 1) = p

StartsWith(s, p) == StartsWithAt(s, 1, p)

\* str.strip()
Strip(s) ==
    LET keep == {i \in DOMAIN s : s[i] \notin Whitespace}
    IN  IF keep = {} THEN <<>>
        ELSE LET lo == CHOOSE i \in keep : \A j \in keep : i <= j
                 hi == CHOOSE i \in keep : \A j \in keep : i >= j
             IN  SubSeq(s, lo, hi)

\* str.replace(old, ""), left to right, non-overlapping
RECURSIVE Remove(_, _)
Remove(s, old) ==
    IF Len(s) < Len(old) \/ Len(old) = 0 THEN s
    ELSE IF SubSeq(s, 1, Len(old)) = old
         THEN Remove(SubSeq(s, Len(old) + 1, Len(s)), old)
         ELSE <<s[1]>> \o Remove(Tail(s), old)

\* sep.join(parts)
RECURSIVE Join(_, _)
Join(sep, parts) ==
    IF parts = <<>> THEN <<>>
    ELSE IF Len(parts) = 1 THEN parts[1]
         ELSE parts[1] \o sep \o Join(sep, Tail(parts))

\* str.ljust(width)
RECURSIVE LJust(_, _)
LJust(s, width) == IF Len(s) >= width THEN s ELSE LJust(s \o <<" ">>, width)

\* ch * n
RECURSIVE Repeat(_, _)
Repeat(ch, n) == IF n <= 0 THEN <<>> ELSE ch \o Repeat(ch, n - 1)

\* str(n) for 0 <= n
RECURSIVE IntToStr(_)
IntToStr(n) ==
    IF n < 10 THEN <<Digits[n + 1]>>
    ELSE IntToStr(n \div 10) \o <<Digits[(n % 10) + 1]>>

\* round(num / den) for den > 0 and num >= 0: Python rounds a tie to the even integer
RoundHalfEven(num, den) ==
    LET q == num \div den
        r == num % den
    IN  IF 2 * r < den THEN q
        ELSE IF 2 * r > den THEN q + 1
             ELSE IF q % 2 = 0 THEN q ELSE q + 1

\* sorted(set of integers), ascending
RECURSIVE SortedAsc(_)
SortedAsc(S) ==
    IF S = {} THEN <<>>
    ELSE LET m == CHOOSE x \in S : \A y \in S : x <= y
         IN  <<m>> \o SortedAsc(S \ {m})

\* sorted(set of integers, reverse=True)
RECURSIVE SortedDesc(_)
SortedDesc(S) ==
    IF S = {} THEN <<>>
    ELSE LET m == CHOOSE x \in S : \A y \in S : x >= y
         IN  <<m>> \o SortedDesc(S \ {m})

\* int & (1 << bit)
BitSet(flags, bit) == (flags \div (2 ^ bit)) % 2 = 1

----------------------------------------------------------------------------
(* Font Normalizer and Style Classifier *)

\* normalize_font_size: size and tolerance in tenths of a point, tolerance > 0
normalize_font_size(size, tolerance) ==
    IF tolerance >= 10
    THEN RoundHalfEven(size, 10) * 10
    ELSE RoundHalfEven(size, tolerance) * tolerance

bold_keywords == << <<"b", "o", "l", "d">>, <<"h", "e", "a", "v", "y">>,
                    <<"b", "l", "a", "c", "k">>,
                    <<"s", "e", "m", "i", "b", "o", "l", "d">>,
                    <<"d", "e", "m", "i", "b", "o", "l", "d">> >>

italic_keywords == << <<"i", "t", "a", "l", "i", "c">>,
                      <<"o", "b", "l", "i", "q", "u", "e">>,
                      <<"s", "l", "a", "n", "t">> >>

code_fonts == << <<"c", "o", "u", "r", "i", "e", "r">>, <<"m", "o", "n", "o">>,
                 <<"c", "o", "n", "s", "o", "l", "a">>, <<"c", "o", "d", "e">> >>

\* is_bold with only the font-name test
is_bold_name_only(font_name, font_flags) ==
    \E k \in DOMAIN bold_keywords : Contains(Lower(font_name), bold_keywords[k])

is_bold(font_name, font_flags) ==
    LET font_lower == Lower(font_name)
        has_bold_name == \E k \in DOMAIN bold_keywords :
                             Contains(font_lower, bold_keywords[k])
        has_bold_flag == BitSet(font_flags, 16)
    IN  has_bold_name \/ has_bold_flag

is_italic(font_name, font_flags) ==
    LET font_lower == Lower(font_name)
        has_italic_name == \E k \in DOMAIN italic_keywords :
                               Contains(font_lower, italic_keywords[k])
        has_italic_flag == BitSet(font_flags, 6)
    IN  has_italic_name \/ has_italic_flag

Letters == Range(UpperCase) \cup Range(LowerCase)

WordStart == Letters \cup {"_"}

WordChar == Letters \cup Range(Digits) \cup {"_"}

code_keywords == << <<"d", "e", "f">>, <<"c", "l", "a", "s", "s">>,
                    <<"i", "m", "p", "o", "r", "t">>, <<"f", "r", "o", "m">>,
                    <<"i", "f">>, <<"f", "o", "r">>, <<"w", "h", "i", "l", "e">>,
                    <<"r", "e", "t", "u", "r", "n">> >>

\* the positions a match of ^\s* can end before: 1 .. first non-blank position
AfterLeadingSpace(text) ==
    {i \in 1..(Len(text) + 1) : \A j \in 1..(i - 1) : text[j] \in Whitespace}

\* r'^\s*(def|class|import|from|if|for|while|return)\s+'
code_pattern_keyword(text) ==
    \E i \in AfterLeadingSpace(text) : \E k \in DOMAIN code_keywords :
        /\ StartsWithAt(text, i, code_keywords[k])
        /\ i + Len(code_keywords[k]) <= Len(text)
        /\ text[i + Len(code_keywords[k])] \in Whitespace

\* r'[\{\}\[\]\(\);]'
code_pattern_bracket(text) ==
    \E i \in DOMAIN text : text[i] \in {"{", "}", "[", "]", "(", ")", ";"}

\* r'^\s*[a-zA-Z_][a-zA-Z0-9_]*\s*='
code_pattern_assign(text) ==
    \E i \in AfterLeadingSpace(text) : \E e \in (i + 1)..Len(text) :
        /\ i <= Len(text)
        /\ text[i] \in WordStart
        /\ text[e] = "="
        /\ \E m \in i..(e - 1) :
               /\ \A t \in (i + 1)..m : text[t] \in WordChar
               /\ \A t \in (m + 1)..(e - 1) : text[t] \in Whitespace

\* r'^\s*//|^\s*#|^\s*/\*'
code_pattern_comment(text) ==
    \E i \in AfterLeadingSpace(text) :
        \/ StartsWithAt(text, i, <<"/", "/">>)
        \/ StartsWithAt(text, i, <<"#">>)
        \/ StartsWithAt(text, i, <<"/", "*">>)

is_code_block(font_name, text) ==
    LET is_monospace == \E k \in DOMAIN code_fonts :
                            Contains(Lower(font_name), code_fonts[k])
        has_code_pattern == \/ code_pattern_keyword(text)
                            \/ code_pattern_bracket(text)
                            \/ code_pattern_assign(text)
                            \/ code_pattern_comment(text)
    IN  is_monospace \/ has_code_pattern

----------------------------------------------------------------------------
(* Table Detector *)

\* the text detect_table gives a line: every span's text followed by " ", stripped
RECURSIVE SpanTexts(_)
SpanTexts(spans) ==
    IF spans = <<>> THEN <<>>
    ELSE spans[1].text \o <<" ">> \o SpanTexts(Tail(spans))

\* the (y_pos, x_pos, text) entries of one block's lines, in line order
RECURSIVE BlockCells(_, _)
BlockCells(y_pos, lines) ==
    IF lines = <<>> THEN <<>>
    ELSE LET text == Strip(SpanTexts(lines[1].spans))
             x_pos == RoundHalfEven(lines[1].x, 10)
         IN  (IF text # <<>> THEN <<[y |-> y_pos, x |-> x_pos, text |-> text]>>
              ELSE <<>>) \o BlockCells(y_pos, Tail(lines))

\* the entries appended to rows[...] over all blocks, in document order
RECURSIVE PageCells(_)
PageCells(blocks) ==
    IF blocks = <<>> THEN <<>>
    ELSE (IF "lines" \in DOMAIN blocks[1]
          THEN BlockCells(RoundHalfEven(blocks[1].y, 10), blocks[1].lines)
          ELSE <<>>) \o PageCells(Tail(blocks))

\* rows[y_pos]: the cells of a row, in insertion order
RowCells(cells, y_pos) == SelectSeq(cells, LAMBDA c : c.y = y_pos)

\* the cells of all rows, rows in sorted order
RECURSIVE RowsFlat(_, _)
RowsFlat(cells, sorted_rows) ==
    IF sorted_rows = <<>> THEN <<>>
    ELSE RowCells(cells, sorted_rows[1]) \o RowsFlat(cells, Tail(sorted_rows))

\* x_positions[x]: one is added for every cell at x
x_positions(cells, x) == Cardinality({i \in DOMAIN cells : cells[i].x = x})

\* the keys of x_positions in insertion order, kept when their tally is >= 2
RECURSIVE CommonX(_, _, _)
CommonX(flat, cells, seen) ==
    IF flat = <<>> THEN <<>>
    ELSE LET x == flat[1].x
         IN  IF x \in seen THEN CommonX(Tail(flat), cells, seen)
             ELSE (IF x_positions(cells, x) >= 2 THEN <<x>> ELSE <<>>)
                  \o CommonX(Tail(flat), cells, seen \cup {x})

\* sorted(cells, key=lambda x: x[0]): stable
RECURSIVE SortCells(_)
SortCells(cells) ==
    IF cells = <<>> THEN <<>>
    ELSE LET rest == SortCells(SubSeq(cells, 1, Len(cells) - 1))
             c == cells[Len(cells)]
             n == Cardinality({i \in DOMAIN rest : rest[i].x <= c.x})
         IN  SubSeq(rest, 1, n) \o <<c>> \o SubSeq(rest, n + 1, Len(rest))

\* min(range(len(cols)), key=lambda i: abs(cols[i] - x_pos)): the first minimum
closest_col(cols, x_pos) ==
    CHOOSE i \in DOMAIN cols :
        /\ \A j \in DOMAIN cols : Abs(cols[i] - x_pos) <= Abs(cols[j] - x_pos)
        /\ \A j \in 1..(i - 1) : Abs(cols[j] - x_pos) > Abs(cols[i] - x_pos)

\* one row of table_data: every cell written to its closest column
RECURSIVE FillRow(_, _, _)
FillRow(row, cells_sorted, cols) ==
    IF cells_sorted = <<>> THEN row
    ELSE FillRow([row EXCEPT ![closest_col(cols, cells_sorted[1].x)] = cells_sorted[1].text],
                 Tail(cells_sorted), cols)

detect_table(blocks) ==
    LET cells == PageCells(blocks)
        sorted_rows == SortedAsc({cells[i].y : i \in DOMAIN cells})
        common_x_positions == CommonX(RowsFlat(cells, sorted_rows), cells, {})
        table_data == [r \in DOMAIN sorted_rows |->
                          FillRow([i \in DOMAIN common_x_positions |-> <<>>],
                                  SortCells(RowCells(cells, sorted_rows[r])),
                                  common_x_positions)]
    IN  IF Len(sorted_rows) < 2 THEN <<>>
        ELSE IF Len(common_x_positions) >= 2
             THEN (IF Len(table_data) >= 2 THEN table_data ELSE <<>>)
             ELSE <<>>

\* max(len(row) for row in table_data)
NumCols(table_data) ==
    CHOOSE n \in {Len(table_data[r]) : r \in DOMAIN table_data} :
        \A r \in DOMAIN table_data : Len(table_data[r]) <= n

\* col_widths[i]: the longest cell of column i
ColWidth(table_data, i) ==
    LET lens == {Len(table_data[r][i]) : r \in {q \in DOMAIN table_data : i <= Len(table_data[q])}} \cup {0}
    IN  CHOOSE w \in lens : \A v \in lens : v <= w

\* the function's local `cell` once the column-width loops are over: the last
\* cell of the last row that has one
LoopCell(table_data) ==
    LET filled == {r \in DOMAIN table_data : Len(table_data[r]) > 0}
        r == CHOOSE q \in filled : \A p \in filled : p <= q
    IN  table_data[r][Len(table_data[r])]

format_table_markdown(table_data) ==
    IF table_data = <<>> THEN <<>>
    ELSE LET num_cols == NumCols(table_data)
             col_widths == [i \in 1..num_cols |-> ColWidth(table_data, i)]
             header == <<"|", " ">>
                       \o Join(<<" ", "|", " ">>,
                               [i \in DOMAIN table_data[1] |->
                                   LJust(table_data[1][i], col_widths[i])])
                       \o <<" ", "|">>
             separator == <<"|">>
                          \o Join(<<"|">>, [i \in 1..num_cols |->
                                               Repeat(<<"-">>, col_widths[i] + 2)])
                          \o <<"|">>
             \* the generator of a data row reads `cell`, which it does not bind
             row_str(row) == <<"|", " ">>
                             \o Join(<<" ", "|", " ">>,
                                     [i \in 1..num_cols |->
                                         IF i <= Len(row)
                                         THEN LJust(LoopCell(table_data), col_widths[i])
                                         ELSE Repeat(<<" ">>, col_widths[i])])
                             \o <<" ", "|">>
             lines == <<header, separator>>
                      \o [r \in 1..(Len(table_data) - 1) |-> row_str(table_data[r + 1])]
         IN  Join(<<"\n">>, lines)

----------------------------------------------------------------------------
(* Heading-Level Resolver *)

\* d[k] += 1 on a defaultdict(int)
Incr(d, k) == IF k \in DOMAIN d THEN [d EXCEPT ![k] = @ + 1] ELSE d @@ (k :> 1)

\* d[k] = v on a dict
Put(d, k, v) == IF k \in DOMAIN d THEN [d EXCEPT ![k] = v] ELSE d @@ (k :> v)

EmptyDict == [k \in {} |-> 0]

\* every span of the document, in the order the analysis pass visits them
RECURSIVE LineSpans(_)
LineSpans(lines) ==
    IF lines = <<>> THEN <<>> ELSE lines[1].spans \o LineSpans(Tail(lines))

RECURSIVE BlockSpans(_)
BlockSpans(blocks) ==
    IF blocks = <<>> THEN <<>>
    ELSE (IF "lines" \in DOMAIN blocks[1] THEN LineSpans(blocks[1].lines) ELSE <<>>)
         \o BlockSpans(Tail(blocks))

RECURSIVE DocSpans(_)
DocSpans(pages) ==
    IF pages = <<>> THEN <<>> ELSE BlockSpans(pages[1].blocks) \o DocSpans(Tail(pages))

\* the first loop of analyze_font_sizes: self.font_sizes and
\* self.normalized_font_map after the spans
RECURSIVE TallySpans(_, _, _)
TallySpans(acc, spans, tolerance) ==
    IF spans = <<>> THEN acc
    ELSE LET size == spans[1].size
             normalized == normalize_font_size(size, tolerance)
         IN  TallySpans([font_sizes |-> Incr(acc.font_sizes, normalized),
                         normalized_font_map |-> Put(acc.normalized_font_map, size, normalized)],
                        Tail(spans), tolerance)

\* the loop over sorted_sizes[:6], a level used up by every size it visits
RECURSIVE AssignLevelsEverySize(_, _, _)
AssignLevelsEverySize(sizes, tally, heading_level) ==
    IF sizes = <<>> THEN EmptyDict
    ELSE (IF tally[sizes[1]] > 2 THEN (sizes[1] :> heading_level) ELSE EmptyDict)
         @@ AssignLevelsEverySize(Tail(sizes), tally, heading_level + 1)

\* the loop over sorted_sizes[:6]: self.size_to_heading
RECURSIVE AssignLevels(_, _, _)
AssignLevels(sizes, tally, heading_level) ==
    IF sizes = <<>> THEN EmptyDict
    ELSE IF tally[sizes[1]] > 2
         THEN (sizes[1] :> heading_level)
              @@ AssignLevels(Tail(sizes), tally, heading_level + 1)
         ELSE AssignLevels(Tail(sizes), tally, heading_level)

\* sorted_sizes[:6]
MaxHeadingLevels == 6

analyze_font_sizes(self_font_sizes, self_normalized_font_map, pages, tolerance) ==
    LET acc == TallySpans([font_sizes |-> self_font_sizes,
                           normalized_font_map |-> self_normalized_font_map],
                          DocSpans(pages), tolerance)
        sorted_sizes == SortedDesc(DOMAIN acc.font_sizes)
        top == SubSeq(sorted_sizes, 1,
                      IF Len(sorted_sizes) < MaxHeadingLevels
                      THEN Len(sorted_sizes) ELSE MaxHeadingLevels)
    IN  [font_sizes |-> acc.font_sizes,
         normalized_font_map |-> acc.normalized_font_map,
         size_to_heading |-> AssignLevels(top, acc.font_sizes, 1)]

----------------------------------------------------------------------------
(* TOC Generator *)

\* re.sub(r'[^\w\s-]', '', anchor)
RECURSIVE StripPunct(_)
StripPunct(s) ==
    IF s = <<>> THEN <<>>
    ELSE (IF s[1] \in WordChar \cup Whitespace \cup {"-"} THEN <<s[1]>> ELSE <<>>)
         \o StripPunct(Tail(s))

\* re.sub(r'[-\s]+', '-', anchor)
RECURSIVE Hyphenate(_)
Hyphenate(s) ==
    IF s = <<>> THEN <<>>
    ELSE IF s[1] \in Whitespace \cup {"-"}
         THEN (IF Len(s) > 1 /\ s[2] \in Whitespace \cup {"-"}
               THEN Hyphenate(Tail(s))
               ELSE <<"-">> \o Hyphenate(Tail(s)))
         ELSE <<s[1]>> \o Hyphenate(Tail(s))

TocHeader == <<"#", "#", " ", "T", "a", "b", "l", "e", " ", "o", "f", " ",
               "C", "o", "n", "t", "e", "n", "t", "s", "\n", "\n">>

\* one line of the TOC
toc_entry(level, text) ==
    LET indent == Repeat(<<" ", " ">>, level - 1)
        anchor == Hyphenate(StripPunct(Lower(text)))
    IN  indent \o <<"-", " ", "[">> \o text \o <<"]", "(", "#">> \o anchor
        \o <<")", "\n">>

RECURSIVE TocEntries(_)
TocEntries(hs) ==
    IF hs = <<>> THEN <<>>
    ELSE toc_entry(hs[1].level, hs[1].text) \o TocEntries(Tail(hs))

generate_toc(self_headings) ==
    IF self_headings = <<>> THEN <<>>
    ELSE TocHeader \o TocEntries(self_headings) \o <<"\n">>

----------------------------------------------------------------------------
(* Line Composer *)

Star == <<"*">>

\* formatted_text of one span
format_span(text, span_is_bold, span_is_italic) ==
    IF span_is_bold /\ span_is_italic
    THEN Star \o Star \o Star \o text \o Star \o Star \o Star
    ELSE IF span_is_bold THEN Star \o Star \o text \o Star \o Star
         ELSE IF span_is_italic THEN Star \o text \o Star
              ELSE text

\* the loop over line["spans"]: formatted_spans and the font of the last span
\* whose stripped text is not empty
RECURSIVE ComposeSpans(_, _, _)
ComposeSpans(acc, spans, tolerance) ==
    IF spans = <<>> THEN acc
    ELSE LET span == spans[1]
             text == Strip(span.text)
         IN  IF text = <<>> THEN ComposeSpans(acc, Tail(spans), tolerance)
             ELSE ComposeSpans(
                      [formatted_spans |->
                           Append(acc.formatted_spans,
                                  format_span(text, is_bold(span.font, span.flags),
                                              is_italic(span.font, span.flags))),
                       current_font_size |-> normalize_font_size(span.size, tolerance),
                       current_font_name |-> span.font],
                      Tail(spans), tolerance)

\* current_font_size = None
NoSize == 0 - 1

compose_line(line, tolerance) ==
    LET acc == ComposeSpans([formatted_spans |-> <<>>, current_font_size |-> NoSize,
                             current_font_name |-> <<>>], line.spans, tolerance)
    IN  [line_text |-> Join(<<" ">>, acc.formatted_spans),
         formatted_spans |-> acc.formatted_spans,
         current_font_size |-> acc.current_font_size,
         current_font_name |-> acc.current_font_name]

\* line_text.replace("**", "").replace("*", "")
clean_markers(line_text) == Remove(Remove(line_text, <<"*", "*">>), <<"*">>)

----------------------------------------------------------------------------
(* Document Assembler *)

\* the backquote character, which a TLA+ string cannot hold
Backquote == "backquote"

Fence == <<Backquote, Backquote, Backquote>>

\* the name of self.pdf_path without its suffix
PdfStem == <<"d", "o", "c">>

ImagesSuffix == <<"_", "i", "m", "a", "g", "e", "s">>

\* an entry of markdown_content: its text, and which statement appended it for
\* which page and line (page, block and line counted from 1; 0 when not a line)
Unit(kind, text, page, block, line) ==
    [kind |-> kind, text |-> text, page |-> page, block |-> block, line |-> line]

\* extract_images: the relative paths of the page's images
image_refs(page_num, page) ==
    [i \in DOMAIN page.images |->
        PdfStem \o ImagesSuffix \o <<"/", "p", "a", "g", "e", "_">>
        \o IntToStr(page_num + 1) \o <<"_", "i", "m", "g", "_">> \o IntToStr(i)
        \o <<".">> \o page.images[i]]

\* f"\n![Image]({img_ref})\n" for every image of the page
image_units(page_num, page) ==
    LET refs == image_refs(page_num, page)
    IN  [i \in DOMAIN refs |->
            Unit("image",
                 <<"\n", "!", "[", "I", "m", "a", "g", "e", "]", "(">> \o refs[i]
                 \o <<")", "\n">>,
                 page_num + 1, 0, 0)]

\* st holds markdown_content, in_code_block, code_buffer, self.headings and
\* whether an exception has left the loop

\* a code line: the fence is opened when no run is open, the line is buffered
code_line(st, c, p, b, l) ==
    [st EXCEPT
        !.markdown_content =
            IF st.in_code_block THEN @ ELSE Append(@, Unit("fence_open", Fence, p, 0, 0)),
        !.in_code_block = TRUE,
        !.code_buffer = Append(@, Unit("code", clean_markers(c.line_text), p, b, l))]

\* "Close code block if we were in one"
close_run(st, p) ==
    IF st.in_code_block
    THEN [st EXCEPT
             !.markdown_content =
                 @ \o st.code_buffer
                 \o <<Unit("fence_close", Fence \o <<"\n">>, p, 0, 0)>>,
             !.code_buffer = <<>>,
             !.in_code_block = FALSE]
    ELSE st

\* a line that is not code, after the run is closed: a heading or a paragraph
prose_line(st, c, heading_map, clean_heading, p, b, l) ==
    IF c.current_font_size \in DOMAIN heading_map
    THEN [st EXCEPT
             !.markdown_content =
                 Append(@, Unit("heading",
                                Repeat(<<"#">>, heading_map[c.current_font_size])
                                \o <<" ">> \o clean_heading, p, b, l)),
             !.headings = Append(@, [level |-> heading_map[c.current_font_size],
                                     text |-> clean_heading])]
    ELSE [st EXCEPT !.markdown_content = Append(@, Unit("para", c.line_text, p, b, l))]

\* the body of the loop over block["lines"], for the composed line c
dispatch_line(st, c, heading_map, p, b, l) ==
    IF c.line_text = <<>> THEN st
    ELSE IF is_code_block(c.current_font_name, c.line_text)
         THEN code_line(st, c, p, b, l)
         ELSE prose_line(close_run(st, p), c, heading_map, clean_markers(c.line_text),
                         p, b, l)

process_line(st, line, heading_map, tolerance, p, b, l) ==
    dispatch_line(st, compose_line(line, tolerance), heading_map, p, b, l)

RECURSIVE process_lines(_, _, _, _, _, _, _)
process_lines(st, lines, heading_map, tolerance, p, b, l) ==
    IF l > Len(lines) THEN st
    ELSE process_lines(process_line(st, lines[l], heading_map, tolerance, p, b, l),
                       lines, heading_map, tolerance, p, b, l + 1)

RECURSIVE process_blocks(_, _, _, _, _, _)
process_blocks(st, blocks, heading_map, tolerance, p, b) ==
    IF b > Len(blocks) THEN st
    ELSE process_blocks(
             IF "lines" \in DOMAIN blocks[b]
             THEN process_lines(st, blocks[b].lines, heading_map, tolerance, p, b, 1)
             ELSE st,
             blocks, heading_map, tolerance, p, b + 1)

\* markdown_content with more entries appended
Emit(st, units) == [st EXCEPT !.markdown_content = @ \o units]

\* the body of the loop over the pages for one page (page_num counted from 0),
\* given what detect_table and extract_images returned
dispatch_page(st, page, page_num, detect_tables, table_data, images, heading_map, tolerance) ==
    IF detect_tables /\ table_data # <<>>
    THEN Emit(st, <<Unit("table",
                         <<"\n">> \o format_table_markdown(table_data) \o <<"\n">>,
                         page_num + 1, 0, 0)>> \o images)
    ELSE Emit(process_blocks(st, page.blocks, heading_map, tolerance, page_num + 1, 1),
              images)

process_page(st, page, page_num, detect_tables, heading_map, tolerance) ==
    dispatch_page(st, page, page_num, detect_tables, detect_table(page.blocks),
                  image_units(page_num, page), heading_map, tolerance)

\* an image self.doc.extract_image raises on
Corrupt == <<"c", "o", "r", "r", "u", "p", "t">>

\* extract_images raises: extract_image fails on one of the page's images
extract_images_raises(page) == \E i \in DOMAIN page.images : page.images[i] = Corrupt

\* the loop over the pages; it is left by the exception of extract_images
RECURSIVE process_pages(_, _, _, _, _, _)
process_pages(st, pages, page_num, detect_tables, heading_map, tolerance) ==
    IF page_num + 1 > Len(pages) THEN st
    ELSE IF extract_images_raises(pages[page_num + 1]) THEN [st EXCEPT !.raised = TRUE]
         ELSE process_pages(process_page(st, pages[page_num + 1], page_num, detect_tables,
                                         heading_map, tolerance),
                            pages, page_num + 1, detect_tables, heading_map, tolerance)

\* the text of every entry
Texts(units) == [i \in DOMAIN units |-> units[i].text]

\* "Close any remaining code block", left out
close_code_block_never(st) == st

\* "Close any remaining code block"
close_code_block(st) ==
    IF st.in_code_block
    THEN [st EXCEPT !.markdown_content =
                        @ \o st.code_buffer
                        \o <<Unit("fence_close", Fence \o <<"\n">>, 0, 0, 0)>>]
    ELSE st

\* "Add TOC at the beginning if requested"
add_toc(full_content, include_toc, self_headings) ==
    IF include_toc /\ self_headings # <<>>
    THEN generate_toc(self_headings) \o full_content
    ELSE full_content

\* the end of convert_to_markdown, st being the state the loop over the pages
\* was left in: the converter's fields, whether the call raised, what it returned
finish(self, analysis, st, include_toc, pages) ==
    [font_sizes |-> analysis.font_sizes,
     normalized_font_map |-> analysis.normalized_font_map,
     size_to_heading |-> analysis.size_to_heading,
     headings |-> st.headings,
     images_dir |-> self.images_dir \/ pages # <<>>,
     raised |-> st.raised,
     markdown_content |-> IF st.raised THEN <<>> ELSE st.markdown_content,
     text |-> IF st.raised THEN <<>>
              ELSE add_toc(Join(<<"\n", "\n">>, Texts(st.markdown_content)),
                           include_toc, st.headings)]

\* convert_to_markdown after self.analyze_font_sizes()
assemble(self, analysis, pages, include_toc, detect_tables) ==
    finish(self, analysis,
           close_code_block(
               process_pages([markdown_content |-> <<>>, in_code_block |-> FALSE,
                              code_buffer |-> <<>>, headings |-> self.headings,
                              raised |-> FALSE],
                             pages, 0, detect_tables, analysis.size_to_heading,
                             self.font_size_tolerance)),
           include_toc, pages)

\* convert_to_markdown on a converter whose fields are self: the fields after
\* the call, whether it raised, and what it returned
convert_to_markdown(self, pages, include_toc, detect_tables) ==
    assemble(self,
             analyze_font_sizes(self.font_sizes, self.normalized_font_map, pages,
                                self.font_size_tolerance),
             pages, include_toc, detect_tables)

----------------------------------------------------------------------------
(* save_markdown and the Gradio handler *)

\* the file written whether or not the conversion raised
write_file_always(r, old_file) ==
    [conv |-> r, out_file |-> [exists |-> TRUE, text |-> r.text]]

\* with open(output_path, "w") ...: f.write(markdown_content), which an
\* exception of the conversion r does not reach
write_file(r, old_file) ==
    [conv |-> r,
     out_file |-> IF r.raised THEN old_file ELSE [exists |-> TRUE, text |-> r.text]]

\* save_markdown: the conversion, then the file
save_markdown(self, pages, old_file, include_toc, detect_tables) ==
    write_file(convert_to_markdown(self, pages, include_toc, detect_tables), old_file)

\* PDFToMarkdownConverter.__init__
NewConverter(tolerance) ==
    [font_size_tolerance |-> tolerance, headings |-> <<>>, font_sizes |-> EmptyDict,
     normalized_font_map |-> EmptyDict, images_dir |-> FALSE]

NoFile == [exists |-> FALSE, text |-> <<>>]

\* the except clause of convert_pdf_with_ui turns every exception into an
\* error message; s is what save_markdown did
ui_result(s) ==
    IF s.conv.raised
    THEN [status |-> "error", markdown_file |-> FALSE, out_file |-> s.out_file]
    ELSE [status |-> "ok", markdown_file |-> TRUE, out_file |-> s.out_file]

\* convert_pdf_with_ui: a new converter on a copy of the upload, in a new directory
convert_pdf_with_ui(pages, include_toc, detect_tables, font_tolerance) ==
    ui_result(save_markdown(NewConverter(font_tolerance), pages, NoFile,
                            include_toc, detect_tables))

----------------------------------------------------------------------------
(* The documents and the calls of the model *)

MaxPages == 2

MaxBlocks == 2

MaxLines == 2

MaxImages == 1

MaxDocLines == 5

MaxCalls == 2

Arial == <<"A", "r", "i", "a", "l">>

Courier == <<"C", "o", "u", "r", "i", "e", "r">>

Png == <<"p", "n", "g">>

\* a line of prose (12.2 pt) and a line of code, as the spans get_text("dict") gives
ProseSpans == <<[text |-> <<"H", "i">>, size |-> 122, font |-> Arial, flags |-> 0]>>

CodeSpans == <<[text |-> <<"x", "=", "1">>, size |-> 100, font |-> Courier, flags |-> 0]>>

LineKinds == {ProseSpans, CodeSpans}

\* the left edge of the j-th line of a block and the top edge of the i-th block
ColumnX(j) == 4000 + 1000 * j

RowY(i) == 1000 * i

SeqsUpTo(S, lo, hi) == UNION {[1..n -> S] : n \in lo..hi}

BlockLines == {[j \in DOMAIN ks |-> [x |-> ColumnX(j), spans |-> ks[j]]] :
                  ks \in SeqsUpTo(LineKinds, 1, MaxLines)}

\* the text blocks of a page
TextBlocks == {[i \in DOMAIN bs |-> [y |-> RowY(i), lines |-> bs[i]]] :
                  bs \in SeqsUpTo(BlockLines, 0, MaxBlocks)}

\* the image blocks of a page, one for each image: they have no "lines"
ImageBlocks(images) == [i \in DOMAIN images |-> [y |-> RowY(MaxBlocks + i)]]

Pages == {[blocks |-> tb \o ImageBlocks(im), images |-> im] :
             tb \in TextBlocks, im \in SeqsUpTo({Png, Corrupt}, 0, MaxImages)}

\* the number of lines of a document
RECURSIVE CountLines(_)
CountLines(blocks) ==
    IF blocks = <<>> THEN 0
    ELSE (IF "lines" \in DOMAIN blocks[1] THEN Len(blocks[1].lines) ELSE 0)
         + CountLines(Tail(blocks))

\* the documents of n pages and at most max_lines lines
RECURSIVE DocsOf(_, _)
DocsOf(n, max_lines) ==
    IF n = 0 THEN {<<>>}
    ELSE UNION {{<<p>> \o d : d \in DocsOf(n - 1, max_lines - CountLines(p.blocks))} :
                   p \in {q \in Pages : CountLines(q.blocks) <= max_lines}}

\* the documents of 1..max_pages pages and at most max_lines lines
Docs(max_pages, max_lines) == UNION {DocsOf(n, max_lines) : n \in 1..max_pages}

\* font_size_tolerance: the default 0.5 and 1.0, in tenths of a point
Tolerances == {5, 10}

\* the default of __init__
DefaultTolerance == 5

NoCall == [op |-> "none"]

Self == [font_size_tolerance |-> font_size_tolerance, headings |-> headings,
         font_sizes |-> font_sizes, normalized_font_map |-> normalized_font_map,
         images_dir |-> images_dir]

\* the converter after __init__ on document d, nothing called yet
Constructed(d, tolerance, file) ==
    /\ doc = d
    /\ font_size_tolerance = tolerance
    /\ headings = <<>>
    /\ font_sizes = EmptyDict
    /\ normalized_font_map = EmptyDict
    /\ size_to_heading = EmptyDict
    /\ images_dir = FALSE
    /\ out_file = file
    /\ calls = 0
    /\ prev = NoCall
    /\ last = NoCall

Init ==
    /\ \E d \in Docs(MaxPages, MaxDocLines) : Constructed(d, DefaultTolerance, NoFile)
    /\ arg = <<>>
    /\ ret = <<>>

\* a call of op with conversion r: what it leaves in the converter, and the
\* record of the call: its options, whether it raised, the text and the
\* markdown_content of its conversion, and the output file before it
Call(op, include_toc, detect_tables, r, status) ==
    /\ headings' = r.headings
    /\ font_sizes' = r.font_sizes
    /\ normalized_font_map' = r.normalized_font_map
    /\ size_to_heading' = r.size_to_heading
    /\ images_dir' = r.images_dir
    /\ last' = [op |-> op, include_toc |-> include_toc, detect_tables |-> detect_tables,
                raised |-> r.raised, text |-> r.text,
                markdown_content |-> r.markdown_content,
                file_before |-> out_file, status |-> status]
    /\ prev' = last
    /\ calls' = calls + 1

NoStatus == [status |-> "none"]

ConvertToMarkdown ==
    /\ calls < MaxCalls
    /\ \E include_toc \in BOOLEAN, detect_tables \in BOOLEAN :
           Call("convert_to_markdown", include_toc, detect_tables,
                convert_to_markdown(Self, doc, include_toc, detect_tables), NoStatus)
    /\ UNCHANGED <<doc, font_size_tolerance, out_file, arg, ret>>

Next == ConvertToMarkdown

Spec == Init /\ [][Next]_vars

----------------------------------------------------------------------------
(* save_markdown and convert_pdf_with_ui, on documents of at most MaxSaveLines
   lines and an output path that may name a file already *)

MaxSaveLines == 2

OldFile == [exists |-> TRUE, text |-> <<"o", "l", "d">>]

InitSave ==
    /\ \E d \in Docs(MaxPages, MaxSaveLines), f \in {NoFile, OldFile} : Constructed(d, DefaultTolerance, f)
    /\ arg = <<>>
    /\ ret = <<>>

\* save_markdown, s being the conversion and the file it leaves
Saved(include_toc, detect_tables, s) ==
    /\ Call("save_markdown", include_toc, detect_tables, s.conv, NoStatus)
    /\ out_file' = s.out_file

SaveMarkdown ==
    /\ calls < MaxCalls
    /\ \E include_toc \in BOOLEAN, detect_tables \in BOOLEAN :
           Saved(include_toc, detect_tables,
                 save_markdown(Self, doc, out_file, include_toc, detect_tables))
    /\ UNCHANGED <<doc, font_size_tolerance, arg, ret>>

\* the handler works on its own converter and its own directory: this
\* converter and its output file are left alone
ConvertPdfWithUi ==
    /\ calls < MaxCalls
    /\ \E include_toc \in BOOLEAN, detect_tables \in BOOLEAN, font_tolerance \in Tolerances :
           last' = [op |-> "convert_pdf_with_ui", include_toc |-> include_toc,
                    detect_tables |-> detect_tables, raised |-> FALSE,
                    text |-> <<>>, markdown_content |-> <<>>, file_before |-> NoFile,
                    status |-> convert_pdf_with_ui(doc, include_toc, detect_tables,
                                                   font_tolerance)]
    /\ prev' = last
    /\ calls' = calls + 1
    /\ UNCHANGED <<doc, font_size_tolerance, headings, font_sizes, normalized_font_map,
                   size_to_heading, images_dir, out_file, arg, ret>>

NextSave == SaveMarkdown \/ ConvertPdfWithUi

SpecSave == InitSave /\ [][NextSave]_vars

----------------------------------------------------------------------------
(* analyze_font_sizes alone, on documents that differ in how many spans they
   have of each of seven raw font sizes *)

MaxTally == 3

\* 12.2 and 12.5 pt are one canonical size at tolerance 1.0 and two at 0.5
RawSizes == <<100, 122, 125, 140, 160, 180, 200>>

\* n spans of the given size
SpansOfSize(size, n) ==
    [i \in 1..n |-> [text |-> <<"H", "i">>, size |-> size, font |-> Arial, flags |-> 0]]

\* a page of one block, with one line for each raw size, of t[i] spans of RawSizes[i]
FontDoc(t) ==
    <<[blocks |-> <<[y |-> RowY(1),
                     lines |-> [i \in DOMAIN RawSizes |->
                                   [x |-> ColumnX(i),
                                    spans |-> SpansOfSize(RawSizes[i], t[i])]]]>>,
       images |-> <<>>]>>

\* the documents of at most max_tally spans of each raw size
FontDocs(max_tally) == {FontDoc(t) : t \in [DOMAIN RawSizes -> 0..max_tally]}

InitFonts ==
    /\ \E d \in FontDocs(MaxTally), tolerance \in Tolerances : Constructed(d, tolerance, NoFile)
    /\ arg = <<>>
    /\ ret = <<>>

\* what analyze_font_sizes leaves in the converter
Analyzed(analysis) ==
    /\ font_sizes' = analysis.font_sizes
    /\ normalized_font_map' = analysis.normalized_font_map
    /\ size_to_heading' = analysis.size_to_heading

AnalyzeFontSizes ==
    /\ calls < MaxCalls
    /\ Analyzed(analyze_font_sizes(font_sizes, normalized_font_map, doc,
                                   font_size_tolerance))
    /\ last' = [op |-> "analyze_font_sizes"]
    /\ prev' = last
    /\ calls' = calls + 1
    /\ UNCHANGED <<doc, font_size_tolerance, headings, images_dir, out_file, arg, ret>>

NextFonts == AnalyzeFontSizes

SpecFonts == InitFonts /\ [][NextFonts]_vars

----------------------------------------------------------------------------
(* detect_table alone, on the blocks of one page *)

\* left edges 50.00, 50.04 (the same column key 50.0) and 60.00
TableXs == {5000, 5004, 6000}

\* top edges 10.00, 10.04 (the same row key 10.0) and 20.00
TableYs == {1000, 1004, 2000}

\* two cell texts and a blank one, which detect_table drops
TableTexts == {<<"A">>, <<"B">>, <<" ">>}

TableLines == {[x |-> x, spans |-> <<[text |-> t, size |-> 100, font |-> Arial,
                                      flags |-> 0]>>] :
                  x \in TableXs, t \in TableTexts}

TableBlocks(max_lines) ==
    {[y |-> y, lines |-> ls] : y \in TableYs, ls \in SeqsUpTo(TableLines, 1, max_lines)}

\* the pages of 1..max_blocks blocks of 1..max_lines lines
TablePages(max_blocks, max_lines) == SeqsUpTo(TableBlocks(max_lines), 1, max_blocks)

\* a converter on no document, and the argument of the one call made on it
InitArg(args) ==
    /\ Constructed(<<>>, DefaultTolerance, NoFile)
    /\ arg \in args
    /\ ret = <<>>

\* the call of a method that leaves the converter as it is
PureCall(op, result) ==
    /\ calls = 0
    /\ ret' = result
    /\ last' = [op |-> op]
    /\ prev' = last
    /\ calls' = calls + 1
    /\ UNCHANGED <<conv_vars, doc, out_file, arg>>

InitTable == InitArg(TablePages(MaxBlocks, MaxLines))

DetectTable == PureCall("detect_table", detect_table(arg))

NextTable == DetectTable

SpecTable == InitTable /\ [][NextTable]_vars

----------------------------------------------------------------------------
(* format_table_markdown alone, on grids of 2..MaxRows rows of 1..MaxCols cells *)

MaxRows == 3

MaxCols == 2

GridCells == {<<"A">>, <<"B">>, <<"C", "C">>}

Grids(max_rows, max_cols) == SeqsUpTo(SeqsUpTo(GridCells, 1, max_cols), 2, max_rows)

InitGrid == InitArg(Grids(MaxRows, MaxCols))

FormatTableMarkdown == PureCall("format_table_markdown", format_table_markdown(arg))

NextGrid == FormatTableMarkdown

SpecGrid == InitGrid /\ [][NextGrid]_vars

----------------------------------------------------------------------------
(* The composition of one line, on lines of 1..MaxSpans spans *)

MaxSpans == 2

Heavy == <<"H", "e", "a", "v", "y">>

Oblique == <<"O", "b", "l", "i", "q", "u", "e">>

SpanTextChoices == {<<"a">>, <<" ", "b", " ">>, <<" ">>}

\* no style bit, bit 6, bit 16, both
SpanFlagChoices == {0, 2 ^ 6, 2 ^ 16, 2 ^ 6 + 2 ^ 16}

LineSpanChoices == [text : SpanTextChoices, size : {122}, font : {Arial, Heavy, Oblique},
                    flags : SpanFlagChoices]

ComposedLines(max_spans) ==
    {[x |-> ColumnX(1), spans |-> sp] : sp \in SeqsUpTo(LineSpanChoices, 1, max_spans)}

InitLine == InitArg(ComposedLines(MaxSpans))

ComposeLine == PureCall("compose_line", compose_line(arg, font_size_tolerance))

NextCompose == ComposeLine

SpecLine == InitLine /\ [][NextCompose]_vars

----------------------------------------------------------------------------
(* Properties of convert_to_markdown, under Spec *)

\* the last call was convert_to_markdown and it returned a text
Returned == last.op = "convert_to_markdown" /\ ~last.raised

IsOpenFence(u) == u.text = Fence

IsCloseFence(u) == u.text = Fence \o <<"\n">>

\* the opening fences less the closing fences among the first n entries
OpenFences(units, n) ==
    Cardinality({i \in 1..n : IsOpenFence(units[i])})
    - Cardinality({i \in 1..n : IsCloseFence(units[i])})

\* C1: the text a conversion returns has as many opening code fences as
\* closing code fences, and at every point of it at most one fence is open: no
\* fence is left unterminated, whatever the pages (table pages, pages that end
\* inside a code run)
C1_FenceBalance ==
    Returned =>
        /\ OpenFences(last.markdown_content, Len(last.markdown_content)) = 0
        /\ \A n \in DOMAIN last.markdown_content :
               OpenFences(last.markdown_content, n) \in {0, 1}

\* a conversion whose code run is open when a page handled as a table comes,
\* and is closed only after the last page
C1_Witness ==
    /\ Returned
    /\ \E i, j, k \in DOMAIN last.markdown_content :
           /\ i < j /\ j < k
           /\ IsOpenFence(last.markdown_content[i])
           /\ last.markdown_content[j].kind = "table"
           /\ IsCloseFence(last.markdown_content[k])
           /\ last.markdown_content[k].page = 0
           /\ \A m \in (i + 1)..(k - 1) : ~IsCloseFence(last.markdown_content[m])

\* C2: two convert_to_markdown calls with the same options on the same
\* document return the same text, also on the same converter
C2_Deterministic ==
    (/\ last.op = "convert_to_markdown" /\ prev.op = "convert_to_markdown"
     /\ ~last.raised /\ ~prev.raised
     /\ last.include_toc = prev.include_toc
     /\ last.detect_tables = prev.detect_tables)
        => last.text = prev.text

\* the conversion recorded a heading: it appended a heading line
RecordedHeading ==
    \E i \in DOMAIN last.markdown_content : last.markdown_content[i].kind = "heading"

\* C3: the returned text starts with the TOC block if and only if include_toc
\* is true and the conversion recorded at least one heading, for every call
C3_TocPresence ==
    Returned => (StartsWith(last.text, TocHeader) <=> (last.include_toc /\ RecordedHeading))

\* the number of spans of the document that normalize to size s
SpanTally(s) ==
    Cardinality({i \in DOMAIN DocSpans(doc) :
                    normalize_font_size(DocSpans(doc)[i].size, font_size_tolerance) = s})

\* C4: a canonical size is in the heading map only if more than 2 spans of the
\* document normalize to it, after any number of calls
C4_HeadingSizesFrequent == \A s \in DOMAIN size_to_heading : SpanTally(s) > 2

\* the entries of lines (code, heading, paragraph) of the last conversion
LineUnits ==
    {i \in DOMAIN last.markdown_content :
        last.markdown_content[i].kind \in {"code", "heading", "para"}}

\* entry i comes from a line before the line of entry j in the document
LineBefore(i, j) ==
    LET u == last.markdown_content[i]
        v == last.markdown_content[j]
    IN  \/ u.page < v.page
        \/ u.page = v.page /\ u.block < v.block
        \/ u.page = v.page /\ u.block = v.block /\ u.line < v.line

\* entry j comes from the line processed right after the line of entry i
NextLine(i, j) ==
    /\ LineBefore(i, j)
    /\ ~\E k \in LineUnits : LineBefore(i, k) /\ LineBefore(k, j)

\* C8: every maximal run of consecutive code lines is one fenced block: an
\* opening fence, exactly the lines of the run in document order and nothing
\* else, a closing fence, and then, right after it, the line that ended the run
C8_OneFencedBlockPerRun ==
    Returned =>
        /\ \A i \in DOMAIN last.markdown_content :
               IsOpenFence(last.markdown_content[i]) =>
                   \E j \in (i + 2)..Len(last.markdown_content) :
                       /\ IsCloseFence(last.markdown_content[j])
                       /\ \A k \in (i + 1)..(j - 1) :
                              last.markdown_content[k].kind = "code"
                       /\ \A k \in (i + 1)..(j - 2) : NextLine(k, k + 1)
                       /\ \A k \in LineUnits :
                              NextLine(k, i + 1) => last.markdown_content[k].kind # "code"
                       /\ \A k \in LineUnits :
                              NextLine(j - 1, k) =>
                                  /\ last.markdown_content[k].kind # "code"
                                  /\ k = j + 1
        /\ \A k \in LineUnits :
               last.markdown_content[k].kind = "code" =>
                   \E i \in 1..(k - 1) :
                       /\ IsOpenFence(last.markdown_content[i])
                       /\ \A m \in (i + 1)..k : last.markdown_content[m].kind = "code"

----------------------------------------------------------------------------
(* Properties of save_markdown and convert_pdf_with_ui, under SpecSave *)

\* the extraction of some image of some page of the document fails
ExtractionFails ==
    \E p \in DOMAIN doc : \E i \in DOMAIN doc[p].images : doc[p].images[i] = Corrupt

\* C9: when the extraction fails on any page during save_markdown, the call
\* raises, returns no text, and leaves the output file as it was, neither
\* created nor modified; the file is written only after the whole conversion
\* has succeeded, and then holds the text of the conversion. The handler
\* convert_pdf_with_ui reports the failure as an error, with no markdown file
C9_AllOrNothing ==
    /\ last.op = "save_markdown" =>
           /\ last.raised <=> ExtractionFails
           /\ last.raised => (last.text = <<>> /\ out_file = last.file_before)
           /\ ~last.raised => out_file = [exists |-> TRUE, text |-> last.text]
    /\ last.op = "convert_pdf_with_ui" =>
           /\ ExtractionFails =>
                  /\ last.status.status = "error"
                  /\ ~last.status.markdown_file
                  /\ ~last.status.out_file.exists
           /\ ~ExtractionFails =>
                  /\ last.status.status = "ok"
                  /\ last.status.markdown_file
                  /\ last.status.out_file.exists
    /\ \/ out_file \in {NoFile, OldFile}
       \/ \E c \in {last, prev} :
              /\ c.op = "save_markdown"
              /\ ~c.raised
              /\ out_file = [exists |-> TRUE, text |-> c.text]

\* save_markdown raised on the second page, after the first page's image was
\* written to the images directory, and the file already at the output path
\* is as it was
C9_Witness ==
    /\ last.op = "save_markdown"
    /\ last.raised
    /\ Len(doc) = 2
    /\ doc[1].images = <<Png>>
    /\ doc[2].images = <<Corrupt>>
    /\ images_dir
    /\ last.file_before = OldFile
    /\ out_file = OldFile

----------------------------------------------------------------------------
(* Properties of analyze_font_sizes, under SpecFonts *)

\* the canonical sizes among the 6 largest
SixLargest ==
    {s \in DOMAIN font_sizes : Cardinality({t \in DOMAIN font_sizes : t > s}) < 6}

\* the accepted sizes: among the 6 largest, with a tally above 2
Accepted == {s \in SixLargest : font_sizes[s] > 2}

\* C5: the heading map built by analyze_font_sizes has exactly the accepted
\* sizes as keys, at most 6 of them; the levels used are exactly 1..k for the
\* k accepted sizes, and a larger accepted size has a smaller level
C5_HeadingLevels ==
    last.op = "analyze_font_sizes" =>
        /\ DOMAIN size_to_heading = Accepted
        /\ Cardinality(DOMAIN size_to_heading) <= 6
        /\ {size_to_heading[s] : s \in DOMAIN size_to_heading}
               = 1..Cardinality(Accepted)
        /\ \A s1, s2 \in DOMAIN size_to_heading :
               s1 > s2 => size_to_heading[s1] < size_to_heading[s2]

\* seven canonical sizes, of which the smallest is frequent and left out, one
\* of the six largest is skipped for its tally, and sizes on both sides of
\* the skipped one are accepted
C5_Witness ==
    /\ last.op = "analyze_font_sizes"
    /\ Cardinality(DOMAIN font_sizes) = 7
    /\ \E s \in DOMAIN font_sizes \ SixLargest : font_sizes[s] > 2
    /\ \E s \in SixLargest \ Accepted :
           /\ \E a \in Accepted : a > s
           /\ \E b \in Accepted : b < s

----------------------------------------------------------------------------
(* Properties of detect_table, under SpecTable *)

\* the row keys of the page's lines that have a text
TableRowKeys == {c.y : c \in Range(PageCells(arg))}

\* the rows that have a cell at column key x
RowsWithColumn(x) == {c.y : c \in {d \in Range(PageCells(arg)) : d.x = x}}

\* the column keys that appear in at least 2 distinct rows
AlignedColumns ==
    {x \in {c.x : c \in Range(PageCells(arg))} : Cardinality(RowsWithColumn(x)) >= 2}

\* C6: detect_table returns a table only when the page has at least 2
\* distinct rows and at least 2 column keys that each appear in at least 2
\* distinct rows
C6_TableNeedsAlignedColumns ==
    (last.op = "detect_table" /\ ret # <<>>) =>
        /\ Cardinality(TableRowKeys) >= 2
        /\ Cardinality(AlignedColumns) >= 2

----------------------------------------------------------------------------
(* Properties of format_table_markdown, under SpecGrid *)

\* the largest number of a set
Largest(S) == CHOOSE n \in S : \A m \in S : m <= n

\* the widest cell of column i of the grid
WidestCell(grid, i) ==
    Largest({Len(grid[r][i]) : r \in {q \in DOMAIN grid : i <= Len(grid[q])}} \cup {0})

\* the number of columns of the grid
GridCols(grid) == Largest({Len(grid[r]) : r \in DOMAIN grid})

\* a line of the cells of one row, each padded to the widest cell of its
\* column, with empty cells for the columns the row does not have
OwnCellsLine(grid, row, n) ==
    <<"|", " ">>
    \o Join(<<" ", "|", " ">>,
            [i \in 1..n |-> LJust(IF i <= Len(row) THEN row[i] ELSE <<>>,
                                  WidestCell(grid, i))])
    \o <<" ", "|">>

DashLine(grid) ==
    <<"|">>
    \o Join(<<"|">>, [i \in 1..GridCols(grid) |-> Repeat(<<"-">>, WidestCell(grid, i) + 2)])
    \o <<"|">>

\* C7: format_table_markdown outputs a header line of row 0's cells, a dash
\* separator, and one line for each remaining row in order, which holds that
\* row's own cells, padded to the widest cell of their column
C7_RowsHoldOwnCells ==
    last.op = "format_table_markdown" =>
        ret = Join(<<"\n">>,
                   <<OwnCellsLine(arg, arg[1], Len(arg[1])), DashLine(arg)>>
                   \o [r \in 1..(Len(arg) - 1) |->
                          OwnCellsLine(arg, arg[r + 1], GridCols(arg))])

----------------------------------------------------------------------------
(* Properties of the composition of a line, under SpecLine *)

\* bold and italic by the claim: a keyword in the font name, or the flag bit
BoldSpan(span) == span.font = Heavy \/ (span.flags \div 65536) % 2 = 1

ItalicSpan(span) == span.font = Oblique \/ (span.flags \div 64) % 2 = 1

Wrapped(marker, text) == marker \o text \o marker

\* what a span with the trimmed text is to be rendered as
Rendered(span) ==
    IF BoldSpan(span) /\ ItalicSpan(span) THEN Wrapped(<<"*", "*", "*">>, Strip(span.text))
    ELSE IF BoldSpan(span) THEN Wrapped(<<"*", "*">>, Strip(span.text))
         ELSE IF ItalicSpan(span) THEN Wrapped(<<"*">>, Strip(span.text))
              ELSE Strip(span.text)

\* the spans whose trimmed text is not empty
TextSpans(spans) == SelectSeq(spans, LAMBDA sp : Strip(sp.text) # <<>>)

\* C10: the fragment composed for a line is its spans of non-empty trimmed
\* text, each rendered ***text*** when bold and italic, **text** when bold
\* only, *text* when italic only and plain otherwise, joined by single spaces
\* in span order; bold and italic are the font-name test or bit 16 / bit 6
C10_Emphasis ==
    last.op = "compose_line" =>
        ret.line_text = Join(<<" ">>, [i \in DOMAIN TextSpans(arg.spans) |->
                                         Rendered(TextSpans(arg.spans)[i])])

\* a line of a span that is bold by its flag and italic by its font, and a
\* span with blanks around its text that is bold by its flag only
C10_Witness ==
    /\ last.op = "compose_line"
    /\ Len(arg.spans) = 2
    /\ arg.spans[1] = [text |-> <<"a">>, size |-> 122, font |-> Oblique, flags |-> 2 ^ 16]
    /\ arg.spans[2] = [text |-> <<" ", "b", " ">>, size |-> 122, font |-> Arial,
                       flags |-> 2 ^ 16]
    /\ ret.line_text = <<"*", "*", "*", "a", "*", "*", "*", " ", "*", "*", "b", "*", "*">>

----------------------------------------------------------------------------
(* The order of the output of convert_to_markdown, under Spec *)

\* the entries emitted from a page: its lines, its table, its image directives
PageUnits ==
    {i \in DOMAIN last.markdown_content :
        last.markdown_content[i].kind \in {"code", "heading", "para", "table", "image"}}

\* C11: on a page processed line by line the image-embed directives of the
\* page come after every line emitted from that page, code lines included,
\* and everything emitted from page p comes before everything emitted from
\* page p+1
C11_PageOrder ==
    Returned =>
        /\ \A i \in LineUnits : \A j \in PageUnits :
               (/\ last.markdown_content[j].kind = "image"
                /\ last.markdown_content[j].page = last.markdown_content[i].page)
                   => i < j
        /\ \A i, j \in PageUnits :
               last.markdown_content[i].page < last.markdown_content[j].page => i < j

----------------------------------------------------------------------------
(* The TOC of convert_to_markdown, under Spec *)

\* the heading lines the last call emitted in its body, in order
EmittedHeadings == SelectSeq(last.markdown_content, LAMBDA u : u.kind = "heading")

\* the level of a heading line: the number of # it starts with
RECURSIVE HashCount(_)
HashCount(t) == IF t # <<>> /\ t[1] = "#" THEN 1 + HashCount(Tail(t)) ELSE 0

\* the text of a heading line, after its marker and the space
HeadingText(t) == SubSeq(t, HashCount(t) + 2, Len(t))

\* the TOC entry of an emitted heading line: 2*(level-1) spaces, then the
\* text as a link to its anchor
ExpectedTocEntry(t) ==
    Repeat(<<" ">>, 2 * (HashCount(t) - 1))
    \o <<"-", " ", "[">> \o HeadingText(t) \o <<"]", "(", "#">>
    \o Hyphenate(StripPunct(Lower(HeadingText(t)))) \o <<")", "\n">>

RECURSIVE ExpectedTocEntries(_)
ExpectedTocEntries(units) ==
    IF units = <<>> THEN <<>>
    ELSE ExpectedTocEntry(units[1].text) \o ExpectedTocEntries(Tail(units))

\* C12: the TOC of a call lists exactly the heading lines emitted in the body
\* of that call, one entry for each, in the same order, with the same level
\* and text; the headings of an earlier call are not in it
C12_TocOfThisCall ==
    (Returned /\ StartsWith(last.text, TocHeader)) =>
        last.text = TocHeader \o ExpectedTocEntries(EmittedHeadings) \o <<"\n">>
                    \o Join(<<"\n", "\n">>, Texts(last.markdown_content))

\* the statement holds of every first call on a converter
C12_FirstCall == prev.op = "none" => C12_TocOfThisCall

----------------------------------------------------------------------------
(* The content of the grid of detect_table, under SpecTable *)

\* the lines of the page that have a text, with their row and column keys
TextLines == PageCells(arg)

\* the row keys in the order of the rows of the grid
GridRowKeys == SortedAsc({TextLines[i].y : i \in DOMAIN TextLines})

\* the column keys that detect_table takes as common
TalliedColumns ==
    {x \in {TextLines[i].x : i \in DOMAIN TextLines} :
        Cardinality({i \in DOMAIN TextLines : TextLines[i].x = x}) >= 2}

\* the lines of row r of the grid
LinesOfRow(r) == {i \in DOMAIN TextLines : TextLines[i].y = GridRowKeys[r]}

\* C13: when detect_table returns a table no line content is lost: every
\* row has as many slots as there are common columns, every line text of the
\* row is the content of one of its slots, and no two lines of a row share a
\* slot, so the row has as many filled slots as it has lines
C13_NoLineLost ==
    (last.op = "detect_table" /\ ret # <<>>) =>
        \A r \in DOMAIN ret :
            /\ Len(ret[r]) = Cardinality(TalliedColumns)
            /\ \A i \in LinesOfRow(r) :
                   \E k \in DOMAIN ret[r] : ret[r][k] = TextLines[i].text
            /\ Cardinality({k \in DOMAIN ret[r] : ret[r][k] # <<>>})
                   = Cardinality(LinesOfRow(r))

============================================================================
